---- MODULE Spec2Model ----
(***************************************************************************)
(* A model of gtk-future-executor: GtkEventLoopAsyncExecutor               *)
(* (src/src/executor.rs), which polls futures on the Gtk+ main thread      *)
(* through glib idle callbacks, and Promise (src/src/promise.rs), a        *)
(* mutex-protected cell that is resolved or rejected from any thread.      *)
(*                                                                         *)
(* Every thread is a small state machine (pc).  The steps of one call are  *)
(* separate actions wherever another thread can run in between them.       *)
(***************************************************************************)
EXTENDS Naturals, Sequences, FiniteSets

(* ------------------------------ bounds -------------------------------- *)

\* spawn() calls made in one run (handles 0 .. MaxTasks-1)
MaxTasks == 2
\* resolve()/reject() calls made in one run
MaxSettles == 2
\* notify() calls made by holders of a task's NotifyHandle outside a Promise
MaxExtNotifies == 1

(* ---------------------------- the universe ---------------------------- *)

\* the Gtk+ main thread: the thread that called GtkEventLoopAsyncExecutor::new()
Owner == "main"
\* other threads of the process (CpuPool workers in the example)
Workers == {"w1"}
Threads == {Owner} \cup Workers
NoThread == "nobody"

\* the Promise backends of the run
Cells == {"c1"}
NoCell == "nocell"

\* the executor backend that new() builds: the one whose fields are next_id
\* and spawns below
TheBackend == "b1"
NoBackend == "nobackend"

\* the places that can hold a GtkEventLoopAsyncExecutor / a Promise: the one
\* returned by new() and one for a clone
ExecRefs == {"e0", "e1"}
CellRefs == {"p0", "p1"}

Handles == 0 .. (MaxTasks - 1)

\* Option<Result<T, E>>: None, Some(Ok(v)), Some(Err(e))
None == <<"None">>
Values == {"v1"}
Errors == {"e1"}
Outcomes == {<<"Ok", v>> : v \in Values} \cup {<<"Err", e>> : e \in Errors}
\* Poll<T, E> of Promise::poll: Ok(NotReady), or the outcome
NotReady == <<"NotReady">>

\* The futures handed to spawn(): the behaviours a Future<Item=(), Error=()> can
\* show to the executor.
\*   Ready : Ok(Async::Ready(())) on the first poll
\*   Fail  : Err(()) on the first poll
\*   Yield : notifies its own task and returns NotReady once, then Ready
\*   Await : a Promise (a clone of cell `cell`): the Promise's poll result
Kinds == {"Ready", "Fail", "Yield", "Await"}
NoSpawn == [kind |-> "none", cell |-> NoCell, step |-> 0]

VARIABLES
    next_id,        \* GtkEventLoopAsyncExecutorBackend.next_id
    spawns,         \* GtkEventLoopAsyncExecutorBackend.spawns: handle -> future
    idleq,          \* glib idle sources waiting to run, per thread that runs them
    pc,             \* where each thread is
    cur,            \* the id argument of the invoke() a thread is running
    spawn,          \* the Spawn a thread's invoke() found / holds while polling
    pres,           \* the result of poll_future_notify in a thread's invoke()
    lock,           \* the Mutex of each Promise backend: its holder
    result,         \* PromiseBackend.result
    waiting_tasks,  \* PromiseBackend.waiting_tasks (each Task = a handle id)
    scell, sidx,    \* the cell a thread is settling, and its notify-loop index
    npolls,         \* history: polls started, per handle
    seen,           \* history: what Promise::poll last returned to each handle
    owed,           \* history: the outcome settled while a handle was a waiter
    consumed,       \* history: per cell, its outcome was taken and none set since
    touched,        \* history: threads that accessed spawns or polled a future
    nstale,         \* history: invoke() calls that found no spawn
    nnotes,         \* history: notify() calls made, per handle
    done,           \* history: how each handle's future ended ("no": it has not)
    nsettles, nouts, \* history: settle calls and outside notify() calls made
    gtk_main,       \* the thread that initialized GTK (NoThread: none has)
    backend,        \* whether new() has built the executor backend
    executors,      \* GtkEventLoopAsyncExecutor.backend of each executor held
    promises,       \* Promise.backend of each Promise held
    notifiers       \* GtkEventLoopAsyncExecutorNotifier.executor.backend of
                    \* the notifiers made so far

vars == <<next_id, spawns, idleq, pc, cur, spawn, pres, lock, result,
          waiting_tasks, scell, sidx, npolls, seen, owed, consumed, touched,
          nstale, nnotes, done, nsettles, nouts, gtk_main, backend,
          executors, promises, notifiers>>

cellVars == <<lock, result, waiting_tasks>>
settleVars == <<scell, sidx>>
invokeVars == <<cur, spawn, pres>>
cellHist == <<seen, owed, consumed>>
ctorVars == <<gtk_main, backend, executors, promises>>
histVars == <<npolls, cellHist, touched, nstale, nnotes, done, nsettles, nouts>>

(* ------------------------------ helpers ------------------------------- *)

Range(s) == {s[i] : i \in 1 .. Len(s)}

\* Faulty variant: the closure runs on the thread that called notify().
IdleContextCaller(caller) == caller

\* glib::source::idle_add attaches the source to the default main context, which
\* only the Gtk+ main thread iterates: whoever calls it, the closure runs on Owner.
IdleContext(caller) == Owner

\* Faulty variant: notify() registers the idle source twice.
idle_add_twice(q, caller, id) ==
    [q EXCEPT ![IdleContext(caller)] = Append(Append(@, id), id)]

\* notify(id) called by `caller`: one more idle source holding invoke(id)
idle_add(q, caller, id) == [q EXCEPT ![IdleContext(caller)] = Append(@, id)]

\* Faulty variant: the backend is entered without mutual exclusion.
CanLockAlways(c) == TRUE

\* self.backend.lock(): blocks until the mutex is free
CanLock(c) == lock[c] = NoThread

Idle(t) == pc[t] = "idle"

\* Faulty variant: clone() builds a copy of the backend.
arc_clone_deep(b) == "a copy"

\* #[derive(Clone)] on a struct whose only field is an Arc: Arc::clone, the
\* same backend
arc_clone(b) == b

\* Faulty variant: the counter is read but not advanced.
fetch_add_none(n) == n

\* next_id.fetch_add(1, Ordering::SeqCst): the value the counter holds after
\* the call (the call returns the value before it)
fetch_add(n) == n + 1

Init ==
    /\ next_id = 0
    /\ spawns = [h \in {} |-> NoSpawn]
    /\ idleq = [t \in Threads |-> << >>]
    /\ pc = [t \in Threads |-> "idle"]
    /\ cur = [t \in Threads |-> 0]
    /\ spawn = [t \in Threads |-> NoSpawn]
    /\ pres = [t \in Threads |-> "none"]
    /\ lock = [c \in Cells |-> NoThread]
    /\ result = [c \in Cells |-> None]
    /\ waiting_tasks = [c \in Cells |-> << >>]
    /\ scell = [t \in Threads |-> NoCell]
    /\ sidx = [t \in Threads |-> 0]
    /\ npolls = [h \in Handles |-> 0]
    /\ seen = [h \in Handles |-> None]
    /\ owed = [h \in Handles |-> None]
    /\ consumed = [c \in Cells |-> FALSE]
    /\ touched = {}
    /\ nstale = 0
    /\ nnotes = [h \in Handles |-> 0]
    /\ done = [h \in Handles |-> "no"]
    /\ nsettles = 0
    /\ nouts = 0
    /\ gtk_main = Owner
    /\ backend = "live"
    /\ executors = [e \in ExecRefs |->
                        IF e = "e0" THEN TheBackend ELSE NoBackend]
    /\ promises = [r \in CellRefs |->
                       IF r = "p0" THEN CHOOSE c \in Cells : TRUE ELSE NoCell]
    /\ notifiers = {}

(* ------------------- GtkEventLoopAsyncExecutor::spawn ------------------ *)

\* Faulty variant: spawn() without its final handle.notify(id).
spawn_no_notify(kind, c) ==
    /\ backend = "live"
    /\ Idle(Owner)
    /\ next_id < MaxTasks
    /\ next_id' = fetch_add(next_id)
    /\ spawns' = [h \in DOMAIN spawns \cup {next_id} |->
                    IF h = next_id THEN [kind |-> kind, cell |-> c, step |-> 0]
                    ELSE spawns[h]]
    /\ touched' = touched \cup {Owner}
    /\ UNCHANGED <<idleq, pc, invokeVars, cellVars, settleVars, npolls, cellHist,
                   nstale, nsettles, nouts, nnotes, done, ctorVars,
                   notifiers>>

\* fetch_add on next_id, insert into spawns, then handle.notify(id): the first
\* poll is an idle source like every later one.  Only Owner can hold the
\* executor (it is neither Send nor Sync).
Spawn(kind, c) ==
    /\ backend = "live"
    /\ Idle(Owner)
    /\ next_id < MaxTasks
    /\ next_id' = fetch_add(next_id)
    /\ spawns' = [h \in DOMAIN spawns \cup {next_id} |->
                    IF h = next_id THEN [kind |-> kind, cell |-> c, step |-> 0]
                    ELSE spawns[h]]
    /\ notifiers' = notifiers \cup {arc_clone(TheBackend)}
    /\ idleq' = idle_add(idleq, Owner, next_id)
    /\ nnotes' = [nnotes EXCEPT ![next_id] = @ + 1]
    /\ touched' = touched \cup {Owner}
    /\ UNCHANGED <<pc, invokeVars, cellVars, settleVars, npolls, cellHist, nstale,
                   nsettles, nouts, done, ctorVars>>

(* ----------------- the idle source queued by notify() ------------------ *)

\* Faulty variant: the closure returns Continue(true) and stays queued.
ContinueTrue(q) == q

\* glib::source::Continue(false): the main loop removes the source it ran
ContinueFalse(q) == Tail(q)

\* The main loop of thread t runs its oldest idle source: the closure calls
\* handle.executor.invoke(id) and returns Continue(false), so it runs once.
Dispatch(t) ==
    /\ Idle(t)
    /\ idleq[t] # << >>
    /\ idleq' = [idleq EXCEPT ![t] = ContinueFalse(idleq[t])]
    /\ cur' = [cur EXCEPT ![t] = Head(idleq[t])]
    /\ pc' = [pc EXCEPT ![t] = "invoke"]
    /\ UNCHANGED <<next_id, spawns, spawn, pres, cellVars, settleVars, histVars,
                   ctorVars, notifiers>>

\* A NotifyHandle of handle h, kept by whatever the future waits for, is
\* notified by thread t: notify(id) only calls idle_add.
ExtNotify(t, h) ==
    /\ Idle(t)
    /\ npolls[h] > 0
    /\ nouts < MaxExtNotifies
    /\ nouts' = nouts + 1
    /\ idleq' = idle_add(idleq, t, h)
    /\ nnotes' = [nnotes EXCEPT ![h] = @ + 1]
    /\ UNCHANGED <<next_id, spawns, pc, invokeVars, cellVars, settleVars,
                   npolls, cellHist, touched, nstale, nsettles, done,
                   ctorVars, notifiers>>

(* ------------------ GtkEventLoopAsyncExecutor::invoke ------------------ *)

\* Faulty variant: the missing entry is unwrapped, and the thread panics.
InvokeStalePanics(t) ==
    /\ pc[t] = "invoke"
    /\ cur[t] \notin DOMAIN spawns
    /\ pc' = [pc EXCEPT ![t] = "panicked"]
    /\ nstale' = nstale + 1
    /\ touched' = touched \cup {t}
    /\ UNCHANGED <<next_id, spawns, idleq, invokeVars, cellVars, settleVars,
                   npolls, cellHist, nsettles, nouts, nnotes, done, ctorVars,
                   notifiers>>

\* spawns.borrow_mut().remove(&id) finds nothing: the None arm logs and returns
InvokeStale(t) ==
    /\ pc[t] = "invoke"
    /\ cur[t] \notin DOMAIN spawns
    /\ pc' = [pc EXCEPT ![t] = "idle"]
    /\ cur' = [cur EXCEPT ![t] = 0]
    /\ nstale' = nstale + 1
    /\ touched' = touched \cup {t}
    /\ UNCHANGED <<next_id, spawns, idleq, spawn, pres, cellVars, settleVars,
                   npolls, cellHist, nsettles, nouts, nnotes, done, ctorVars,
                   notifiers>>

\* remove(&id) finds the entry ...
InvokeLookup(t) ==
    /\ pc[t] = "invoke"
    /\ cur[t] \in DOMAIN spawns
    /\ spawn' = [spawn EXCEPT ![t] = spawns[cur[t]]]
    /\ pc' = [pc EXCEPT ![t] = "remove"]
    /\ touched' = touched \cup {t}
    /\ UNCHANGED <<next_id, spawns, idleq, cur, pres, cellVars, settleVars,
                   npolls, cellHist, nstale, nsettles, nouts, nnotes, done,
                   ctorVars, notifiers>>

\* ... and takes it out of the table; the Some arm starts poll_future_notify.
\* The RefCell is unsynchronised: the two halves of remove() are atomic only
\* because a single thread runs them.
InvokeRemove(t) ==
    /\ pc[t] = "remove"
    /\ spawns' = [h \in DOMAIN spawns \ {cur[t]} |-> spawns[h]]
    /\ pc' = [pc EXCEPT ![t] = "poll"]
    /\ notifiers' = notifiers \cup {arc_clone(TheBackend)}
    /\ npolls' = [npolls EXCEPT ![cur[t]] = @ + 1]
    /\ UNCHANGED <<next_id, idleq, invokeVars, cellVars, settleVars, cellHist,
                   touched, nstale, nsettles, nouts, nnotes, done, ctorVars>>

(* ------------- the future's poll, inside poll_future_notify ------------ *)

CellOf(t) == spawn[t].cell

\* future::ok(()): Ok(Async::Ready(()))
PollReady(t) ==
    /\ pc[t] = "poll"
    /\ spawn[t].kind = "Ready"
    /\ pres' = [pres EXCEPT ![t] = "Ready"]
    /\ pc' = [pc EXCEPT ![t] = "match"]
    /\ UNCHANGED <<next_id, spawns, idleq, cur, spawn, cellVars, settleVars,
                   histVars, ctorVars, notifiers>>

\* future::err(()): Err(())
PollFail(t) ==
    /\ pc[t] = "poll"
    /\ spawn[t].kind = "Fail"
    /\ pres' = [pres EXCEPT ![t] = "Err"]
    /\ pc' = [pc EXCEPT ![t] = "match"]
    /\ UNCHANGED <<next_id, spawns, idleq, cur, spawn, cellVars, settleVars,
                   histVars, ctorVars, notifiers>>

\* A future that calls task::current().notify() inside its first poll and
\* returns NotReady, and is Ready on its second poll.
PollYield(t) ==
    /\ pc[t] = "poll"
    /\ spawn[t].kind = "Yield"
    /\ IF spawn[t].step = 0
       THEN /\ idleq' = idle_add(idleq, t, cur[t])
            /\ nnotes' = [nnotes EXCEPT ![cur[t]] = @ + 1]
            /\ spawn' = [spawn EXCEPT ![t].step = 1]
            /\ pres' = [pres EXCEPT ![t] = "NotReady"]
       ELSE /\ pres' = [pres EXCEPT ![t] = "Ready"]
            /\ UNCHANGED <<idleq, spawn, nnotes>>
    /\ pc' = [pc EXCEPT ![t] = "match"]
    /\ UNCHANGED <<next_id, spawns, cur, cellVars, settleVars, npolls, cellHist,
                   touched, nstale, done, nsettles, nouts, ctorVars,
                   notifiers>>

\* Faulty variant: the RefMut is bound to a name and lives to the end of
\* invoke, across the poll.
BorrowScopeWide == {"remove", "poll", "p_some", "p_none", "match"}

\* The positions of invoke at which the RefMut of spawns.borrow_mut() is
\* alive: it is a temporary of the `remove` statement.
BorrowScope == {"remove"}

\* thread t holds the mutable borrow of the RefCell around the table
Borrowed(t) == pc[t] \in BorrowScope

\* A future that calls spawn() on a clone of the executor inside its first
\* poll (as long as the run has handles left) and returns NotReady, and is
\* Ready on its second poll.  The child is future::ok(()).  borrow_mut() in
\* spawn panics when the RefCell is already borrowed.  step: 0 before the
\* first poll, 1 after a first poll that spawned, 2 after one that did not.
PollNest(t) ==
    /\ pc[t] = "poll"
    /\ spawn[t].kind = "Nest"
    /\ IF spawn[t].step = 0 /\ next_id < MaxTasks
       THEN IF \E u \in Threads : Borrowed(u)
            THEN /\ pc' = [pc EXCEPT ![t] = "panicked"]
                 /\ next_id' = fetch_add(next_id)
                 /\ UNCHANGED <<spawns, idleq, spawn, pres, nnotes, notifiers,
                                touched>>
            ELSE /\ next_id' = fetch_add(next_id)
                 /\ spawns' = [h \in DOMAIN spawns \cup {next_id} |->
                                 IF h = next_id
                                 THEN [kind |-> "Ready", cell |-> NoCell,
                                       step |-> 0]
                                 ELSE spawns[h]]
                 /\ notifiers' = notifiers \cup {arc_clone(TheBackend)}
                 /\ idleq' = idle_add(idleq, t, next_id)
                 /\ nnotes' = [nnotes EXCEPT ![next_id] = @ + 1]
                 /\ touched' = touched \cup {t}
                 /\ spawn' = [spawn EXCEPT ![t].step = 1]
                 /\ pres' = [pres EXCEPT ![t] = "NotReady"]
                 /\ pc' = [pc EXCEPT ![t] = "match"]
       ELSE /\ pres' = [pres EXCEPT ![t] =
                          IF spawn[t].step = 0 THEN "NotReady" ELSE "Ready"]
            /\ spawn' = [spawn EXCEPT ![t].step = IF @ = 0 THEN 2 ELSE @]
            /\ pc' = [pc EXCEPT ![t] = "match"]
            /\ UNCHANGED <<next_id, spawns, idleq, nnotes, notifiers, touched>>
    /\ UNCHANGED <<cur, cellVars, settleVars, npolls, cellHist, nstale, done,
                   nsettles, nouts, ctorVars>>

(* ---------------------------- Promise::poll ---------------------------- *)

\* self.backend.lock().unwrap(), then `match backend.result`
PromisePollLock(t) ==
    /\ pc[t] = "poll"
    /\ spawn[t].kind = "Await"
    /\ CanLock(CellOf(t))
    /\ lock' = [lock EXCEPT ![CellOf(t)] = t]
    /\ pc' = [pc EXCEPT ![t] =
                IF result[CellOf(t)] # None THEN "p_some" ELSE "p_none"]
    /\ UNCHANGED <<next_id, spawns, idleq, invokeVars, result, waiting_tasks,
                   settleVars, histVars, ctorVars, notifiers>>

\* Faulty variant: the result is copied out and left in place.
ResultClone(r) == <<r, r>>

\* backend.result.take(): <<what it leaves behind, what it hands out>>
ResultTake(r) == <<None, r>>

\* Some(_) => backend.result.take().unwrap(): Ok(Ready(v)) or Err(e); the guard
\* is dropped on return.  unwrap() of a None panics.
PromisePollTake(t) ==
    /\ pc[t] = "p_some"
    /\ LET c == CellOf(t)
           taken == ResultTake(result[c])
       IN  /\ result' = [result EXCEPT ![c] = taken[1]]
           /\ lock' = [lock EXCEPT ![c] = NoThread]
           /\ IF taken[2] = None
              THEN /\ pc' = [pc EXCEPT ![t] = "panicked"]
                   /\ UNCHANGED <<pres, cellHist>>
              ELSE /\ pres' = [pres EXCEPT ![t] =
                                 IF taken[2][1] = "Ok" THEN "Ready" ELSE "Err"]
                   /\ seen' = [seen EXCEPT ![cur[t]] = taken[2]]
                   /\ owed' = [owed EXCEPT ![cur[t]] = None]
                   /\ consumed' = [consumed EXCEPT ![c] = TRUE]
                   /\ pc' = [pc EXCEPT ![t] = "match"]
    /\ UNCHANGED <<next_id, spawns, idleq, cur, spawn, waiting_tasks,
                   settleVars, npolls, touched, nstale, nsettles, nouts,
                   nnotes, done, ctorVars, notifiers>>

\* None => waiting_tasks.push(task::current()); Ok(Async::NotReady)
PromisePollPush(t) ==
    /\ pc[t] = "p_none"
    /\ LET c == CellOf(t)
       IN  /\ waiting_tasks' = [waiting_tasks EXCEPT ![c] = Append(@, cur[t])]
           /\ lock' = [lock EXCEPT ![c] = NoThread]
    /\ seen' = [seen EXCEPT ![cur[t]] = NotReady]
    /\ owed' = [owed EXCEPT ![cur[t]] = None]
    /\ pres' = [pres EXCEPT ![t] = "NotReady"]
    /\ pc' = [pc EXCEPT ![t] = "match"]
    /\ UNCHANGED <<next_id, spawns, idleq, cur, spawn, result, settleVars,
                   npolls, consumed, touched, nstale, nsettles, nouts,
                   nnotes, done, ctorVars, notifiers>>

(* ---------------- invoke, after poll_future_notify returns ------------- *)

\* Faulty variants: a failed future is put back (retried); a finished future
\* is put back; an unfinished future is dropped.
ReinsertOnErr(res) == res \in {"NotReady", "Err"}
ReinsertOnReady(res) == res \in {"NotReady", "Ready"}
ReinsertNever(res) == FALSE

\* The arm of `match result` that inserts the spawn again: Ok(Async::NotReady)
Reinsert(res) == res = "NotReady"

\* match result: Ready drops the spawn, NotReady puts it back under the same
\* id, Err logs and drops it.
InvokeMatch(t) ==
    /\ pc[t] = "match"
    /\ IF Reinsert(pres[t])
       THEN spawns' = [h \in DOMAIN spawns \cup {cur[t]} |->
                          IF h = cur[t] THEN spawn[t] ELSE spawns[h]]
       ELSE UNCHANGED spawns
    /\ pc' = [pc EXCEPT ![t] = "idle"]
    /\ cur' = [cur EXCEPT ![t] = 0]
    /\ spawn' = [spawn EXCEPT ![t] = NoSpawn]
    /\ pres' = [pres EXCEPT ![t] = "none"]
    /\ done' = [done EXCEPT ![cur[t]] =
                  IF pres[t] = "Ready" THEN "ok"
                  ELSE IF pres[t] = "Err" THEN "err" ELSE @]
    /\ UNCHANGED <<next_id, idleq, cellVars, settleVars, npolls, cellHist,
                   touched, nstale, nnotes, nsettles, nouts, ctorVars,
                   notifiers>>

(* -------------------- Promise::resolve and ::reject -------------------- *)

\* lock, then backend.result = Some(outcome), whatever it held
Settle(t, c, outcome) ==
    /\ Idle(t)
    /\ nsettles < MaxSettles
    /\ CanLock(c)
    /\ nsettles' = nsettles + 1
    /\ lock' = [lock EXCEPT ![c] = t]
    /\ result' = [result EXCEPT ![c] = outcome]
    /\ owed' = [h \in Handles |->
                   IF h \in Range(waiting_tasks[c]) THEN outcome ELSE owed[h]]
    /\ consumed' = [consumed EXCEPT ![c] = FALSE]
    /\ scell' = [scell EXCEPT ![t] = c]
    /\ sidx' = [sidx EXCEPT ![t] = 1]
    /\ pc' = [pc EXCEPT ![t] = "s_notify"]
    /\ UNCHANGED <<next_id, spawns, idleq, invokeVars, waiting_tasks, npolls,
                   seen, touched, nstale, nouts, nnotes, done, ctorVars,
                   notifiers>>

\* resolve(result): Some(Ok(result))
Resolve(t, c, v) == Settle(t, c, <<"Ok", v>>)

\* reject(error): Some(Err(error))
Reject(t, c, e) == Settle(t, c, <<"Err", e>>)

\* Faulty variant: notify() runs invoke on the spot, and the poll of the
\* waiting future locks the cell that the caller holds.
SettleNotifyPolls(t) ==
    /\ pc[t] = "s_notify"
    /\ sidx[t] <= Len(waiting_tasks[scell[t]])
    /\ CanLock(scell[t])
    /\ sidx' = [sidx EXCEPT ![t] = @ + 1]
    /\ UNCHANGED <<next_id, spawns, idleq, pc, invokeVars, cellVars, scell,
                   histVars, ctorVars, notifiers>>

\* for task in &backend.waiting_tasks { task.notify(); }
SettleNotify(t) ==
    /\ pc[t] = "s_notify"
    /\ sidx[t] <= Len(waiting_tasks[scell[t]])
    /\ idleq' = idle_add(idleq, t, waiting_tasks[scell[t]][sidx[t]])
    /\ nnotes' = [nnotes EXCEPT ![waiting_tasks[scell[t]][sidx[t]]] = @ + 1]
    /\ sidx' = [sidx EXCEPT ![t] = @ + 1]
    /\ UNCHANGED <<next_id, spawns, pc, invokeVars, cellVars, scell, npolls,
                   cellHist, touched, nstale, done, nsettles, nouts,
                   ctorVars, notifiers>>

\* Faulty variant: the waiter list is not cleared.
SettleKeep(t) ==
    /\ pc[t] = "s_notify"
    /\ sidx[t] > Len(waiting_tasks[scell[t]])
    /\ lock' = [lock EXCEPT ![scell[t]] = NoThread]
    /\ scell' = [scell EXCEPT ![t] = NoCell]
    /\ sidx' = [sidx EXCEPT ![t] = 0]
    /\ pc' = [pc EXCEPT ![t] = "idle"]
    /\ UNCHANGED <<next_id, spawns, idleq, invokeVars, result, waiting_tasks,
                   histVars, ctorVars, notifiers>>

\* backend.waiting_tasks.clear(); the guard is dropped on return
SettleClear(t) ==
    /\ pc[t] = "s_notify"
    /\ sidx[t] > Len(waiting_tasks[scell[t]])
    /\ waiting_tasks' = [waiting_tasks EXCEPT ![scell[t]] = << >>]
    /\ lock' = [lock EXCEPT ![scell[t]] = NoThread]
    /\ scell' = [scell EXCEPT ![t] = NoCell]
    /\ sidx' = [sidx EXCEPT ![t] = 0]
    /\ pc' = [pc EXCEPT ![t] = "idle"]
    /\ UNCHANGED <<next_id, spawns, idleq, invokeVars, result, histVars, ctorVars,
                   notifiers>>

(* --------------------------- specification ---------------------------- *)

\* the executor held at e is one whose backend is TheBackend
Via(e) == executors[e] = TheBackend

\* a Promise is held at r
Held(r) == promises[r] \in Cells

Next ==
    \/ \E e \in ExecRefs, k \in Kinds \ {"Await"} : Via(e) /\ Spawn(k, NoCell)
    \/ \E e \in ExecRefs, r \in CellRefs :
            Via(e) /\ Held(r) /\ Spawn("Await", promises[r])
    \/ \E t \in Threads : Dispatch(t)
    \/ \E t \in Threads, h \in Handles : ExtNotify(t, h)
    \/ \E t \in Threads : InvokeStale(t)
    \/ \E t \in Threads : InvokeLookup(t)
    \/ \E t \in Threads : InvokeRemove(t)
    \/ \E t \in Threads : PollReady(t)
    \/ \E t \in Threads : PollFail(t)
    \/ \E t \in Threads : PollYield(t)
    \/ \E t \in Threads : PromisePollLock(t)
    \/ \E t \in Threads : PromisePollTake(t)
    \/ \E t \in Threads : PromisePollPush(t)
    \/ \E t \in Threads : InvokeMatch(t)
    \/ \E t \in Threads, r \in CellRefs, v \in Values :
            Held(r) /\ Resolve(t, promises[r], v)
    \/ \E t \in Threads, r \in CellRefs, e \in Errors :
            Held(r) /\ Reject(t, promises[r], e)
    \/ \E t \in Threads : SettleNotify(t)
    \/ \E t \in Threads : SettleClear(t)

Spec == Init /\ [][Next]_vars

\* The main loop runs every idle source it is given, a thread that started a
\* call finishes it, and a mutex that is released is acquired by who waits for
\* it.  Calls from outside (spawn, resolve, reject, notify) are never forced.
Fairness ==
    \A t \in Threads :
        /\ WF_vars(Dispatch(t))
        /\ WF_vars(InvokeStale(t) \/ InvokeLookup(t) \/ InvokeRemove(t))
        /\ WF_vars(PollReady(t) \/ PollFail(t) \/ PollYield(t))
        /\ SF_vars(PromisePollLock(t))
        /\ WF_vars(PromisePollTake(t) \/ PromisePollPush(t))
        /\ WF_vars(InvokeMatch(t))
        /\ WF_vars(SettleNotify(t) \/ SettleClear(t))

FairSpec == Spec /\ Fairness

(* ------------------- GtkEventLoopAsyncExecutor::new -------------------- *)

\* Faulty variant: only "GTK is initialized" is asserted, not the thread.
is_initialized(t) == gtk_main # NoThread

\* gtk::is_initialized_main_thread(): GTK is initialized and the calling thread
\* is the one that initialized it
is_initialized_main_thread(t) == gtk_main = t

\* gtk::init() on the thread that thereby becomes the main thread
GtkInit ==
    /\ Idle(Owner)
    /\ gtk_main = NoThread
    /\ gtk_main' = Owner
    /\ UNCHANGED <<next_id, spawns, idleq, pc, invokeVars, cellVars,
                   settleVars, histVars, backend, executors, promises,
                   notifiers>>

\* new() on thread t: the assert, then the backend with counter 0 and an empty
\* table.  A failed assert panics the calling thread before anything is built.
New(t) ==
    /\ Idle(t)
    /\ backend = "none"
    /\ IF is_initialized_main_thread(t)
       THEN /\ backend' = "live"
            /\ executors' = [executors EXCEPT !["e0"] = TheBackend]
            /\ next_id' = 0
            /\ spawns' = [h \in {} |-> NoSpawn]
            /\ pc' = pc
       ELSE /\ pc' = [pc EXCEPT ![t] = "panicked"]
            /\ UNCHANGED <<backend, executors, next_id, spawns>>
    /\ UNCHANGED <<idleq, invokeVars, cellVars, settleVars, histVars, gtk_main,
                   promises, notifiers>>

\* The program from its start: GTK not initialized, no executor
CtorInit ==
    /\ next_id = 0
    /\ spawns = [h \in {} |-> NoSpawn]
    /\ idleq = [t \in Threads |-> << >>]
    /\ pc = [t \in Threads |-> "idle"]
    /\ cur = [t \in Threads |-> 0]
    /\ spawn = [t \in Threads |-> NoSpawn]
    /\ pres = [t \in Threads |-> "none"]
    /\ lock = [c \in Cells |-> NoThread]
    /\ result = [c \in Cells |-> None]
    /\ waiting_tasks = [c \in Cells |-> << >>]
    /\ scell = [t \in Threads |-> NoCell]
    /\ sidx = [t \in Threads |-> 0]
    /\ npolls = [h \in Handles |-> 0]
    /\ seen = [h \in Handles |-> None]
    /\ owed = [h \in Handles |-> None]
    /\ consumed = [c \in Cells |-> FALSE]
    /\ touched = {}
    /\ nstale = 0
    /\ nnotes = [h \in Handles |-> 0]
    /\ done = [h \in Handles |-> "no"]
    /\ nsettles = 0
    /\ nouts = 0
    /\ gtk_main = NoThread
    /\ backend = "none"
    /\ executors = [e \in ExecRefs |-> NoBackend]
    /\ promises = [r \in CellRefs |->
                       IF r = "p0" THEN CHOOSE c \in Cells : TRUE ELSE NoCell]
    /\ notifiers = {}

CtorNext ==
    \/ GtkInit
    \/ \E t \in Threads : New(t)
    \/ Next

CtorSpec == CtorInit /\ [][CtorNext]_vars

(* ------------------- spawn() from inside a poll ------------------------ *)

NestNext ==
    \/ \E e \in ExecRefs : Via(e) /\ Spawn("Nest", NoCell)
    \/ \E t \in Threads : PollNest(t)
    \/ Next

NestSpec == Init /\ [][NestNext]_vars

(* ------------------------------- clone() ------------------------------- *)

\* GtkEventLoopAsyncExecutor::clone, on the thread that holds the executor
\* (it is neither Send nor Sync)
CloneExecutor(from, to) ==
    /\ Idle(Owner)
    /\ executors[from] # NoBackend
    /\ executors[to] = NoBackend
    /\ executors' = [executors EXCEPT ![to] = arc_clone(executors[from])]
    /\ UNCHANGED <<next_id, spawns, idleq, pc, invokeVars, cellVars,
                   settleVars, histVars, gtk_main, backend, promises,
                   notifiers>>

\* Promise::clone, on any thread
ClonePromise(t, from, to) ==
    /\ Idle(t)
    /\ promises[from] # NoCell
    /\ promises[to] = NoCell
    /\ promises' = [promises EXCEPT ![to] = arc_clone(promises[from])]
    /\ UNCHANGED <<next_id, spawns, idleq, pc, invokeVars, cellVars,
                   settleVars, histVars, gtk_main, backend, executors,
                   notifiers>>

CloneNext ==
    \/ \E from, to \in ExecRefs : CloneExecutor(from, to)
    \/ \E t \in Threads, from, to \in CellRefs : ClonePromise(t, from, to)
    \/ Next

CloneSpec == Init /\ [][CloneNext]_vars

(* ------------------------ vocabulary of the claims --------------------- *)

\* thread t is inside poll_future_notify
Polling(t) == pc[t] \in {"poll", "p_some", "p_none"}

\* a call of invoke(h) is queued, or has started and not yet taken the spawn
WakePending(h) ==
    \/ \E t \in Threads : h \in Range(idleq[t])
    \/ \E t \in Threads : pc[t] \in {"invoke", "remove"} /\ cur[t] = h

\* a resolve or reject of cell c is between recording the outcome and returning
Settling(c) == \E t \in Threads : pc[t] = "s_notify" /\ scell[t] = c

Registered(h, c) == h \in Range(waiting_tasks[c])

\* h is kept in the table after its poll of cell c returned NotReady
Suspended(h, c) ==
    /\ h \in DOMAIN spawns
    /\ spawns[h].kind = "Await"
    /\ spawns[h].cell = c
    /\ seen[h] = NotReady

\* this step is thread t returning from Promise::poll
PromisePollReturns(t) == pc[t] \in {"p_some", "p_none"} /\ pc'[t] # pc[t]

\* this step is thread t leaving invoke(id) through the None arm
StaleStep(t) ==
    pc[t] = "invoke" /\ cur[t] \notin DOMAIN spawns /\ pc'[t] # pc[t]

\* this step is thread t calling notify() from resolve, reject or outside
NotifyStep(t) == (\E h \in Handles : ExtNotify(t, h)) \/ SettleNotify(t)

(* ------------------------------- claims -------------------------------- *)

\* C1: at no time are two polls of the same handle's future in progress,
\* whatever threads the notifications came from.
C1_NoConcurrentPolls ==
    \A h \in Handles :
        Cardinality({t \in Threads : Polling(t) /\ cur[t] = h}) <= 1

\* C1 witness: a second poll of a handle is in progress while a further
\* notification for the same handle is already queued.
C1_Witness ==
    \E t \in Threads :
        /\ Polling(t)
        /\ npolls[cur[t]] >= 2
        /\ \E u \in Threads : cur[t] \in Range(idleq[u])

\* C2: no lost wakeup: whenever a cell holds an outcome and a task is
\* registered as its waiter or suspended on it, either the settling call is
\* still running (its notify loop covers the waiter) or a call of invoke for
\* that task is pending.
C2_NoLostWakeup ==
    \A c \in Cells, h \in Handles :
        (result[c] # None /\ (Registered(h, c) \/ Suspended(h, c)))
            => (Settling(c) \/ WakePending(h))

\* C2 witness: a worker is settling a cell that has a registered waiter while
\* the owner is polling a future that awaits the same cell.
C2_Witness ==
    \E w \in Workers, c \in Cells :
        /\ pc[w] = "s_notify" /\ scell[w] = c
        /\ result[c] # None
        /\ waiting_tasks[c] # << >>
        /\ pc[Owner] = "poll" /\ spawn[Owner].kind = "Await"
        /\ spawn[Owner].cell = c

\* C3: only the owning thread ever accesses the task table or polls a future;
\* a notify() from another thread appends exactly one invoke request to the
\* owner's queue and changes neither the table nor the handle counter.
C3_ThreadAffinity ==
    /\ [](touched \subseteq {Owner})
    /\ [](\A t \in Threads : Polling(t) => t = Owner)
    /\ [][\A t \in Workers : NotifyStep(t) =>
            /\ spawns' = spawns
            /\ next_id' = next_id
            /\ \E h \in Handles : idleq'[Owner] = Append(idleq[Owner], h)
            /\ \A u \in Workers : idleq'[u] = idleq[u]]_vars

\* C3 witness: a worker's notification is queued while the owner is polling.
C3_Witness ==
    /\ nouts > 0
    /\ Polling(Owner)
    /\ idleq[Owner] # << >>
    /\ \E w \in Workers : pc[w] = "s_notify" /\ sidx[w] > 1

\* C4 (as claimed): when spawn returns the future has been polled once, and a
\* future that is Ready on its first poll has no entry in the table.
C4_SubmitPollsFirst ==
    [][next_id' # next_id =>
        /\ npolls'[next_id] >= 1
        /\ (spawns'[next_id].kind = "Ready" => next_id \notin DOMAIN spawns')]_vars

\* C4 (amended): when spawn returns the future has not been polled: its entry
\* is in the table and one invoke request for it has been appended to the
\* owner's queue; until that first poll the entry stays and the request stays
\* pending; a poll that returns Ready leaves no entry for the handle.
C4_SubmitQueuesFirstPoll ==
    /\ [][next_id' # next_id =>
            /\ npolls'[next_id] = 0
            /\ next_id \in DOMAIN spawns'
            /\ idleq'[Owner] = Append(idleq[Owner], next_id)]_vars
    /\ [](\A h \in Handles :
            (h < next_id /\ npolls[h] = 0) =>
                (h \in DOMAIN spawns /\ WakePending(h)))
    /\ [][\A t \in Threads :
            (pc[t] = "match" /\ pres[t] = "Ready" /\ pc'[t] # pc[t])
                => cur[t] \notin DOMAIN spawns']_vars

\* C4 witness: spawn has returned for a Ready future that is still unpolled and
\* in the table, while the first poll of an earlier Ready future has returned.
C4_Witness ==
    /\ pc[Owner] = "match" /\ pres[Owner] = "Ready"
    /\ spawn[Owner].kind = "Ready" /\ npolls[cur[Owner]] = 1
    /\ \E h \in DOMAIN spawns : spawns[h].kind = "Ready" /\ npolls[h] = 0

\* C5: a poll of a cell that holds an outcome returns exactly that outcome and
\* consumes it; once consumed the cell holds no outcome until it is settled
\* again, and every poll in between returns NotReady.
C5_ExactlyOnceConsumption ==
    /\ [](\A c \in Cells : consumed[c] => result[c] = None)
    /\ [][\A t \in Threads : PromisePollReturns(t) =>
            LET c == spawn[t].cell
                h == cur[t]
            IN  /\ result[c] # None => (seen'[h] = result[c] /\ consumed'[c])
                /\ result[c] = None => seen'[h] = NotReady
                /\ consumed[c] => seen'[h] = NotReady]_vars
    /\ [][\A c \in Cells : (result[c] = None /\ result'[c] # None)
            => nsettles' = nsettles + 1]_vars

\* C5 witness: after a single settlement one poll took the outcome and a later
\* poll of the same cell returned NotReady.
C5_Witness ==
    \E c \in Cells, h1, h2 \in Handles :
        /\ nsettles = 1 /\ ~Settling(c)
        /\ consumed[c]
        /\ seen[h1] \in Outcomes
        /\ seen[h2] = NotReady /\ Registered(h2, c)

\* C6 (as claimed): a recorded outcome is never replaced: it stays until a poll
\* takes it.
C6_OutcomeImmutable ==
    [][\A c \in Cells :
        result[c] # None => result'[c] \in {result[c], None}]_vars

\* C7 (as claimed): a poll of a cell whose outcome was consumed (and that was
\* not settled again) does not return NotReady and registers no waiter.
C7_PollAfterConsumeIsFatal ==
    [][\A t \in Threads :
        (PromisePollReturns(t) /\ consumed[spawn[t].cell] /\ nsettles = 1) =>
            /\ seen'[cur[t]] # NotReady
            /\ waiting_tasks' = waiting_tasks]_vars

\* C8 (as claimed): every task registered as a waiter when the cell was
\* settled (once) gets that outcome from its first poll after the settlement.
C8_SettlementReachesEveryWaiter ==
    [][\A t \in Threads :
        (PromisePollReturns(t) /\ owed[cur[t]] # None /\ nsettles = 1) =>
            seen'[cur[t]] = owed[cur[t]]]_vars

\* C9: an invoke for a handle that is not in the table returns normally and
\* changes nothing: not the table, the counter, the queues, any cell, or what
\* any other thread is doing.
C9_StaleNotificationIsNoop ==
    [][\A t \in Threads : StaleStep(t) =>
        /\ pc'[t] = "idle"
        /\ spawns' = spawns
        /\ next_id' = next_id
        /\ idleq' = idleq
        /\ cellVars' = cellVars
        /\ \A u \in Threads \ {t} : pc'[u] = pc[u] /\ spawn'[u] = spawn[u]]_vars

\* C9 witness: a stale invoke has been processed while another task is still
\* in the table.
C9_Witness == nstale > 0 /\ DOMAIN spawns # {} /\ Idle(Owner)

\* C10 (as claimed): a task that was a waiter of a cell when it was settled is
\* eventually polled again, gets the outcome, and leaves the table (stated for
\* a cell that is settled once: a second settlement ends the obligation).
C10_WakeUpLiveness ==
    \A h \in Handles :
        (owed[h] # None /\ nsettles = 1)
            ~> ((h \notin DOMAIN spawns /\ seen[h] \in Outcomes) \/ nsettles > 1)

\* The step in which invoke's `match result` handles the result res on thread t
MatchStep(t, res) == pc[t] = "match" /\ pres[t] = res /\ InvokeMatch(t)

\* C11: failure isolation: the step that handles a failed poll of handle h
\* leaves h out of the table and changes no other handle's entry, no queued
\* notification, no cell and not the counter; a failed handle is never in the
\* table and never polled again.
C11_FailureIsolation ==
    /\ [][\A t \in Threads : MatchStep(t, "Err") =>
            /\ cur[t] \notin DOMAIN spawns'
            /\ DOMAIN spawns' = DOMAIN spawns \ {cur[t]}
            /\ \A g \in DOMAIN spawns' : spawns'[g] = spawns[g]
            /\ idleq' = idleq
            /\ next_id' = next_id
            /\ cellVars' = cellVars
            /\ \A g \in Handles \ {cur[t]} : done'[g] = done[g]]_vars
    /\ [](\A h \in Handles : done[h] = "err" =>
            /\ h \notin DOMAIN spawns
            /\ \A t \in Threads : pc[t] \in {"remove", "poll", "match"}
                                     => cur[t] # h)
    /\ [][\A h \in Handles : done[h] = "err" => npolls'[h] = npolls[h]]_vars

\* C11 witness: one future has failed on its first poll, and after that a
\* sibling that has not finished is being polled.
C11_Witness ==
    \E h, g \in Handles :
        /\ done[h] = "err" /\ npolls[h] = 1
        /\ g # h /\ done[g] = "no"
        /\ pc[Owner] = "poll" /\ cur[Owner] = g

\* The step in which spawn runs on the owning thread
SpawnStep == \E kind \in Kinds, c \in Cells \cup {NoCell} : Spawn(kind, c)

\* C12: handles are unique and increasing: every spawn takes a handle that is
\* greater than every handle given out before, that is not in the table, and
\* it leaves every existing table entry as it was; every handle that is in
\* the table, was notified or was polled is below the counter.
C12_HandlesUniqueMonotonic ==
    /\ [][SpawnStep =>
            /\ next_id' > next_id
            /\ next_id \notin DOMAIN spawns
            /\ nnotes[next_id] = 0 /\ npolls[next_id] = 0
            /\ DOMAIN spawns' = DOMAIN spawns \cup {next_id}
            /\ \A g \in DOMAIN spawns : spawns'[g] = spawns[g]]_vars
    /\ [][next_id' >= next_id]_vars
    /\ [](\A h \in Handles :
            (h \in DOMAIN spawns \/ nnotes[h] > 0 \/ npolls[h] > 0)
                => h < next_id)

\* C12 witness: a second spawn was made after the first future finished; its
\* entry sits in the table under the next handle, not yet polled.
C12_Witness ==
    /\ next_id = 2
    /\ done[0] # "no" /\ nnotes[0] = 1
    /\ 1 \in DOMAIN spawns /\ npolls[1] = 0

\* C13: new() builds the executor only when called on the thread that
\* initialized GTK, after it did; any other call panics the caller and builds
\* nothing.  While no executor exists there is no table entry, no handle was
\* given out and nothing is queued.
C13_ConstructionGuarded ==
    /\ [][\A t \in Threads : New(t) =>
            IF gtk_main # NoThread /\ t = Owner
            THEN backend' = "live" /\ pc'[t] = "idle"
            ELSE /\ backend' = "none"
                 /\ pc'[t] = "panicked"
                 /\ next_id' = next_id /\ spawns' = spawns]_vars
    /\ [](backend = "live" => gtk_main = Owner)
    /\ [](backend = "none" =>
            /\ next_id = 0
            /\ DOMAIN spawns = {}
            /\ \A t \in Threads : idleq[t] = << >>)

\* C13 witness: a worker's new() has panicked, the owner's new() after
\* gtk::init() built the executor, and a future was spawned on it.
C13_Witness ==
    /\ \E w \in Workers : pc[w] = "panicked"
    /\ backend = "live"
    /\ next_id > 0

\* C14: clones share one backend: every executor held, and every notifier's
\* executor, has the backend that new() built, and every Promise held has the
\* backend of the Promise it was cloned from.  So a spawn through any of them
\* puts its entry in the table that invoke reads, and an outcome settled
\* through any Promise is the one held by the backend of every other, which a
\* poll then returns.
C14_ClonesShareBackend ==
    /\ [](\A e \in ExecRefs : executors[e] \in {NoBackend, TheBackend})
    /\ [](notifiers \subseteq {TheBackend})
    /\ [](\A r1, r2 \in CellRefs :
            (promises[r1] # NoCell /\ promises[r2] # NoCell)
                => promises[r1] = promises[r2])
    /\ [][SpawnStep =>
            \A e \in ExecRefs : executors[e] # NoBackend =>
                Via(e) /\ next_id \in DOMAIN spawns']_vars
    /\ [][\A t \in Threads, c \in Cells, o \in Outcomes :
            Settle(t, c, o) =>
                \A r \in CellRefs : promises[r] # NoCell =>
                    Held(r) /\ result'[promises[r]] = o]_vars
    /\ [][\A t \in Threads :
            (PromisePollReturns(t) /\ result[CellOf(t)] # None) =>
                \A r \in CellRefs : promises[r] # NoCell =>
                    Held(r) /\ seen'[cur[t]] = result[promises[r]]]_vars

\* C14 witness: the executor and the Promise have each been cloned, two
\* futures were spawned, the cell was settled and a poll returned the outcome.
C14_Witness ==
    /\ executors["e1"] # NoBackend
    /\ promises["p1"] # NoCell
    /\ next_id = 2
    /\ nsettles > 0
    /\ \E h \in Handles : seen[h] \in Outcomes

\* thread t is inside invoke(h) with the spawn taken out of the table
Holding(t, h) == pc[t] \in {"poll", "p_some", "p_none", "match"} /\ cur[t] = h

\* C15: a notification raised while a poll of handle h is executing is not
\* lost: an invoke(h) starts only when no poll of h is executing and none is
\* waiting to put its spawn back; a handle whose future has not finished is
\* out of the table only while its poll executes; so an invoke never takes
\* the None arm for a future that has not finished.
C15_WakeupDuringPollNotLost ==
    /\ [][\A t \in Threads : Dispatch(t) =>
            \A u \in Threads : ~Holding(u, cur'[t])]_vars
    /\ [](\A h \in Handles :
            (h < next_id /\ done[h] = "no" /\ h \notin DOMAIN spawns)
                => \E u \in Threads : Holding(u, h))
    /\ [][\A t \in Threads : StaleStep(t) => done[cur[t]] # "no"]_vars

\* C15 witness: a future notified itself during its first poll, which returned
\* NotReady; the invoke that notification queued found the spawn put back and
\* is polling it a second time.
C15_Witness ==
    \E h \in Handles :
        /\ pc[Owner] = "poll" /\ cur[Owner] = h
        /\ spawn[Owner].kind = "Yield" /\ spawn[Owner].step = 1
        /\ npolls[h] = 2 /\ nnotes[h] = 2 /\ nouts = 0

\* C16: a finished future is discarded for good: from the step that handles
\* Ready or Err on, its handle is not in the table and its poll count does not
\* change, whatever notifications arrive for it: each of them ends in the None
\* arm of invoke.
C16_FinishedTaskDiscarded ==
    /\ [][\A t \in Threads : (MatchStep(t, "Ready") \/ MatchStep(t, "Err"))
            => (done'[cur[t]] # "no" /\ cur[t] \notin DOMAIN spawns')]_vars
    /\ [](\A h \in Handles : done[h] # "no" =>
            /\ h \notin DOMAIN spawns
            /\ \A t \in Threads : ~Holding(t, h))
    /\ [][\A h \in Handles : done[h] # "no" =>
            /\ done'[h] = done[h]
            /\ npolls'[h] = npolls[h]
            /\ h \notin DOMAIN spawns']_vars
    /\ [][\A t \in Threads :
            (pc[t] = "invoke" /\ done[cur[t]] # "no" /\ pc'[t] # pc[t])
                => StaleStep(t) /\ pc'[t] = "idle"]_vars

\* C16 witness: a future finished with Ready on its second poll, and a third
\* notification for its handle has been handled as stale (every notification
\* for the other handles led to a poll).
C16_Witness ==
    \E h \in Handles :
        /\ done[h] = "ok" /\ npolls[h] = 2 /\ nnotes[h] = 3
        /\ nstale > 0
        /\ Idle(Owner) /\ idleq[Owner] = << >>
        /\ \A g \in Handles \ {h} : nnotes[g] = npolls[g]

RECURSIVE SumOver(_, _)
\* the sum of f[x] over the finite set S
SumOver(f, S) ==
    IF S = {} THEN 0
    ELSE LET x == CHOOSE y \in S : TRUE IN f[x] + SumOver(f, S \ {x})

\* calls of invoke that are queued, or have started and not yet looked up
QueuedInvokes ==
    SumOver([t \in Threads |-> Len(idleq[t])], Threads)
        + Cardinality({t \in Threads : pc[t] \in {"invoke", "remove"}})

\* C17: polls happen only in response to notifications, one for one: every
\* notify() made accounts for exactly one call of invoke (queued, or run as a
\* poll or as a stale no-op); a handle is never polled more often than it was
\* notified, and while its future has not finished and no invoke for it is
\* pending it was polled exactly as often as notified (NotReady once and one
\* more notification: two polls); a future in the table with no invoke
\* pending is not polled and stays in the table until it is notified.
C17_PollsOnlyOnNotification ==
    /\ [](SumOver(nnotes, Handles)
            = SumOver(npolls, Handles) + nstale + QueuedInvokes)
    /\ [](\A h \in Handles : npolls[h] <= nnotes[h])
    /\ [](\A h \in Handles :
            (h < next_id /\ done[h] = "no" /\ ~WakePending(h))
                => npolls[h] = nnotes[h])
    /\ [][\A h \in Handles : npolls'[h] # npolls[h] =>
            /\ npolls'[h] = npolls[h] + 1
            /\ \E t \in Threads : pc[t] = "remove" /\ cur[t] = h
                                     /\ pc'[t] = "poll"]_vars
    /\ [][\A h \in Handles :
            (h \in DOMAIN spawns /\ ~WakePending(h) /\ nnotes'[h] = nnotes[h])
                => (h \in DOMAIN spawns' /\ npolls'[h] = npolls[h]
                    /\ ~WakePending(h)')]_vars

\* C17 witness: a future that awaited an unsettled cell on its first poll was
\* notified once more by the settlement and has been polled exactly twice,
\* while another future that was NotReady and never notified again sits in
\* the table, polled once.
C17_Witness ==
    \E h, g \in Handles :
        /\ h # g
        /\ nnotes[h] = 2 /\ npolls[h] = 2 /\ done[h] # "no"
        /\ g \in DOMAIN spawns /\ nnotes[g] = 1 /\ npolls[g] = 1
        /\ ~WakePending(g)
        /\ nouts = 0 /\ nstale = 0 /\ Idle(Owner)

\* thread t holds the lock of cell c
Holds(t, c) == lock[c] = t

\* thread t is blocked in lock() on cell c
WaitsFor(t, c) ==
    pc[t] = "poll" /\ spawn[t].kind = "Await" /\ CellOf(t) = c /\ ~CanLock(c)

\* the steps a thread takes while it holds a cell's lock
HolderStep(t) ==
    PromisePollTake(t) \/ PromisePollPush(t) \/ SettleNotify(t) \/ SettleClear(t)

\* C18: no deadlock between the cell and the scheduler: a thread that holds a
\* cell's lock waits for nothing (its next step is enabled, and no thread
\* waits for a lock it holds itself); notify() under the lock only appends to
\* the owner's queue: it leaves the lock, the table, the poll counts and every
\* thread's position alone; each step of the holder either releases the lock
\* or advances the notify loop, which ends at the length of the waiter list.
C18_NoCellSchedulerDeadlock ==
    /\ [](\A t \in Threads, c \in Cells : Holds(t, c) =>
            /\ pc[t] \in {"p_some", "p_none", "s_notify"}
            /\ ENABLED HolderStep(t)
            /\ ~WaitsFor(t, c))
    /\ [][\A t \in Threads : SettleNotify(t) =>
            /\ Holds(t, scell[t])
            /\ lock' = lock /\ spawns' = spawns /\ npolls' = npolls
            /\ pc' = pc
            /\ \E h \in Handles : idleq'[Owner] = Append(idleq[Owner], h)]_vars
    /\ [][\A t \in Threads, c \in Cells : (Holds(t, c) /\ HolderStep(t)) =>
            \/ lock'[c] = NoThread
            \/ /\ sidx'[t] = sidx[t] + 1
               /\ sidx[t] <= Len(waiting_tasks[c])
               /\ waiting_tasks' = waiting_tasks]_vars

\* C18 witness: the owner is blocked in lock() on a cell while a worker that
\* holds the lock is in its notify loop and has queued an invoke on the owner.
C18_Witness ==
    \E w \in Workers, c \in Cells :
        /\ Holds(w, c) /\ pc[w] = "s_notify" /\ sidx[w] = 2
        /\ WaitsFor(Owner, c)
        /\ idleq[Owner] # << >>

\* C19: cell state invariant: while no thread holds the cell's lock, a
\* recorded outcome implies an empty waiter list; a poll that returns NotReady
\* appends exactly one entry (its own handle) and a poll that returns the
\* outcome appends none; a settlement starts its notify loop at the first
\* entry, notifies the entry at its index once per step over a list that
\* nobody changes meanwhile, and returns only past the last entry, leaving the
\* list empty.
C19_CellStateInvariant ==
    /\ [](\A c \in Cells :
            (lock[c] = NoThread /\ result[c] # None) => waiting_tasks[c] = << >>)
    /\ [][\A t \in Threads : PromisePollReturns(t) =>
            LET c == CellOf(t)
            IN  IF seen'[cur[t]] = NotReady
                THEN waiting_tasks'[c] = Append(waiting_tasks[c], cur[t])
                ELSE waiting_tasks'[c] = waiting_tasks[c]]_vars
    /\ [][\A t \in Threads, c \in Cells, o \in Outcomes : Settle(t, c, o) =>
            (sidx'[t] = 1 /\ waiting_tasks' = waiting_tasks /\ nnotes' = nnotes)]_vars
    /\ [][\A c \in Cells : (Settling(c) /\ Settling(c)')
            => waiting_tasks'[c] = waiting_tasks[c]]_vars
    /\ [][\A t \in Threads : SettleNotify(t) =>
            LET h == waiting_tasks[scell[t]][sidx[t]]
            IN  /\ nnotes' = [nnotes EXCEPT ![h] = @ + 1]
                /\ idleq'[Owner] = Append(idleq[Owner], h)
                /\ sidx'[t] = sidx[t] + 1]_vars
    /\ [][\A t \in Threads : (pc[t] = "s_notify" /\ pc'[t] # pc[t]) =>
            /\ sidx[t] = Len(waiting_tasks[scell[t]]) + 1
            /\ waiting_tasks'[scell[t]] = << >>
            /\ lock'[scell[t]] = NoThread
            /\ nnotes' = nnotes]_vars

\* C19 witness: a cell with two waiters was settled once; both were notified,
\* the call has returned, and the cell holds the outcome with no waiter.
C19_Witness ==
    \E c \in Cells :
        /\ lock[c] = NoThread /\ result[c] # None /\ waiting_tasks[c] = << >>
        /\ nsettles = 1 /\ nouts = 0
        /\ \E h1, h2 \in Handles :
            /\ h1 # h2
            /\ owed[h1] # None /\ nnotes[h1] = 2
            /\ owed[h2] # None /\ nnotes[h2] = 2

\* this step is the first poll of a future that calls spawn() inside it
NestedSpawnStep(t) ==
    /\ pc[t] = "poll" /\ spawn[t].kind = "Nest"
    /\ spawn[t].step = 0 /\ next_id < MaxTasks
    /\ pc'[t] # pc[t]

\* C20: spawn() from inside a poll is safe: no mutable borrow of the table is
\* alive while a future is polled; a spawn() made inside the poll of handle h
\* does not panic, takes a fresh handle other than h, and adds its entry and
\* one queued invoke; when that poll has returned NotReady and invoke has
\* handled it, the table holds h again and every handle spawned and not yet
\* polled, the one spawned inside the poll included.
C20_ReentrantSpawnSafe ==
    /\ [](\A t \in Threads : (Polling(t) \/ pc[t] = "match")
            => \A u \in Threads : ~Borrowed(u))
    /\ [][\A t \in Threads : NestedSpawnStep(t) =>
            /\ pc'[t] = "match" /\ pres'[t] = "NotReady"
            /\ next_id # cur[t]
            /\ next_id \notin DOMAIN spawns
            /\ next_id' = next_id + 1
            /\ DOMAIN spawns' = DOMAIN spawns \cup {next_id}
            /\ idleq'[Owner] = Append(idleq[Owner], next_id)]_vars
    /\ [](\A t \in Threads :
            (pc[t] = "match" /\ spawn[t].kind = "Nest" /\ pres[t] = "NotReady")
                => cur[t] \notin DOMAIN spawns)
    /\ [][\A t \in Threads :
            (MatchStep(t, "NotReady") /\ spawn[t].kind = "Nest") =>
                /\ cur[t] \in DOMAIN spawns'
                /\ \A g \in Handles :
                      (g < next_id /\ npolls[g] = 0) => g \in DOMAIN spawns']_vars

\* C20 witness: future 0 called spawn() inside its first poll and returned
\* NotReady; invoke has put it back, and both it and the future it spawned
\* under handle 1 are in the table, the latter not yet polled.
C20_Witness ==
    /\ Idle(Owner)
    /\ DOMAIN spawns = {0, 1}
    /\ spawns[0].kind = "Nest" /\ spawns[0].step = 1
    /\ npolls[0] = 1 /\ npolls[1] = 0
    /\ spawns[1].kind = "Ready"
    /\ idleq[Owner] = <<1>>
====
